---- MODULE Spec2Model ----
(***************************************************************************)
(* The peer session of src/overlay/Peer.cpp: handshake gate, message       *)
(* dispatch, fetch responder, peer exchange and flood hand-off.            *)
(*                                                                         *)
(* Every handler is an operator from an effect record to an effect record, *)
(* applied in the order the C++ statements run.  An effect holds what one  *)
(* handler run changes: the session's fields, whether drop() was called,   *)
(* the messages sent (in order), the collaborator calls made (in order),   *)
(* the collaborators' own state, and whether the process aborted.          *)
(***************************************************************************)
EXTENDS Integers, Sequences, FiniteSets, TLC

\* ------------------------------------------------------------------ bounds
\* How many times one consensus envelope may be received by the node.
MaxFlood == 2

\* How many GetPeers requests the Acceptor of a linked pair sends.
MaxAsks == 2

\* The sessions of the node.
PeerIds == {1, 2}

\* ------------------------------------------------------- program constants
\* PeerState, in the order  mState < GOT_HELLO  compares.
CONNECTING == 0
CONNECTED == 1
GOT_HELLO == 2

\* The limit sendPeers passes to loadPeers.
PEERS_LIMIT == 50

\* mRemoteListeningPort before any Hello.
NO_PORT == -1

\* mRemoteProtocolVersion before any Hello: the constructor leaves the int
\* uninitialised and nothing reads it before recvHello writes it.  The mark
\* is no value a Hello carries.
INDETERMINATE == -2

\* mApp.getConfig().PROTOCOL_VERSION / VERSION_STR as sendHello reads them.
PROTOCOL_VERSION == 9
VERSION_STR == "test-1.0"

\* The width of one octet of an opaque_array<4>.
U8 == 256

ACCEPTOR == "ACCEPTOR"
INITIATOR == "INITIATOR"
NOROLE == "NOROLE"

\* MessageType tags.
ERROR_MSG == "ERROR_MSG"
HELLO == "HELLO"
DONT_HAVE == "DONT_HAVE"
GET_PEERS == "GET_PEERS"
PEERS == "PEERS"
GET_TX_SET == "GET_TX_SET"
TX_SET == "TX_SET"
GET_VALIDATIONS == "GET_VALIDATIONS"
VALIDATIONS == "VALIDATIONS"
TRANSACTION == "TRANSACTION"
GET_FBA_QUORUMSET == "GET_FBA_QUORUMSET"
FBA_QUORUMSET == "FBA_QUORUMSET"
FBA_MESSAGE == "FBA_MESSAGE"
JSON_TRANSACTION == "JSON_TRANSACTION"
NOTYPE == "NOTYPE"

\* --------------------------------------------------------------- messages
\* StellarMessage: the tag and every arm of the union, unused arms at their
\* XDR default.
NoHello == [protocolVersion |-> 0, versionStr |-> "", port |-> 0]

NoEnvelope == [slotIndex |-> 0, statement |-> 0]

StellarMessage(t) ==
    [type |-> t, hello |-> NoHello, dhType |-> NOTYPE, reqHash |-> 0,
     peers |-> <<>>, txSetHash |-> 0, txSet |-> 0, transaction |-> 0,
     qSetHash |-> 0, qSet |-> 0, fbaMessage |-> NoEnvelope]

NoMsg == StellarMessage(NOTYPE)

\* A missing optional (a null shared_ptr).
Null == 0

\* ------------------------------------------------------------------ state
VARIABLES
    created,                \* the session object has been constructed
    mRole,                  \* Peer::mRole
    mState,                 \* Peer::mState
    mRemoteProtocolVersion, \* Peer::mRemoteProtocolVersion
    mRemoteVersion,         \* Peer::mRemoteVersion
    mRemoteListeningPort,   \* Peer::mRemoteListeningPort
    dropped,                \* drop() has been called on the session
    connectPending,         \* the transport connect has not completed yet
    ioQueue,                \* tasks posted to the main io service, in order
    floodSeen,              \* Flood Coordinator: content hashes already seen
    knownTx,                \* Consensus Gateway: transactions already admitted
    aborted,                \* the process has aborted
    helloSent,              \* history: the session has sent a Hello
    envStats,               \* history: per envelope hash, receipts and calls
    ev,                     \* history: the last event and what it did
    wire,                   \* linked pair: messages in flight towards each session
    asks                    \* linked pair: GetPeers requests sent so far

vars == <<created, mRole, mState, mRemoteProtocolVersion, mRemoteVersion,
          mRemoteListeningPort, dropped, connectPending, ioQueue, floodSeen,
          knownTx, aborted, helloSent, envStats, ev, wire, asks>>

\* -------------------------------------------------------- collaborator calls
\* One call on a collaborator, every argument slot present.
Call(fn) ==
    [fn |-> fn, hash |-> 0, peer |-> 0, force |-> FALSE, limit |-> 0,
     ip |-> <<>>, port |-> 0, item |-> 0, slot |-> 0, msg |-> NoMsg]

\* ------------------------------------------------------------------ effects
\* The effect of a handler that has not done anything yet on session p.
Begin(p) ==
    [st |-> mState[p],
     rpv |-> mRemoteProtocolVersion[p],
     rv |-> mRemoteVersion[p],
     rlp |-> mRemoteListeningPort[p],
     drop |-> FALSE,
     out |-> <<>>,
     calls |-> <<>>,
     seen |-> floodSeen,
     known |-> knownTx,
     fanouts |-> <<>>,
     abort |-> FALSE]

AddCall(e, c) == [e EXCEPT !.calls = Append(@, c)]

\* Peer::drop() is pure virtual in Peer; the transports implement it.  It
\* marks the session permanently unusable and leaves mState alone.
drop(e) == [e EXCEPT !.drop = TRUE]

\* Peer::sendMessage(StellarMessage const&): serialise and hand to the
\* transport.  There is no check of the session's state.
sendMessage(e, p, msg) == [e EXCEPT !.out = Append(@, [peer |-> p, msg |-> msg])]

sendHello(e, p) ==
    sendMessage(e, p,
        [StellarMessage(HELLO) EXCEPT
            !.hello = [protocolVersion |-> PROTOCOL_VERSION,
                       versionStr |-> VERSION_STR,
                       port |-> 0]])

sendDontHave(e, p, type, itemID) ==
    sendMessage(e, p,
        [StellarMessage(DONT_HAVE) EXCEPT !.reqHash = itemID, !.dhType = type])

sendFBAQuorumSet(e, p, qSet) ==
    sendMessage(e, p, [StellarMessage(FBA_QUORUMSET) EXCEPT !.qSet = qSet])

\* ------------------------------------------------------------ peer addresses
\* A dotted string is modelled by its '.'-separated items, each the integer
\* atoi() reads from it.  ipFromStr fills ret from the first items, at most
\* four of them, each narrowed to one octet, and reports whether it saw four.
RECURSIVE ipFromStrLoop(_, _, _)
ipFromStrLoop(items, n, ret) ==
    IF n < Len(items) /\ n < 4
    THEN ipFromStrLoop(items, n + 1, [ret EXCEPT ![n + 1] = items[n + 1] % U8])
    ELSE [ok |-> (n = 4), ret |-> ret]

ipFromStr(ipStr, ret) == ipFromStrLoop(ipStr, 0, ret)

\* recvPeers prints the four octets back into a dotted string.
ipToStr(ip) == <<ip[1], ip[2], ip[3], ip[4]>>

\* A default-constructed PeerAddress.
NoAddress == [ip |-> <<0, 0, 0, 0>>, port |-> 0]

sendPeers(e, p, peerList) ==
    LET e1 == AddCall(e, [Call("loadPeers") EXCEPT !.limit = PEERS_LIMIT])
        addrs == [n \in 1..Len(peerList) |->
                    [ip |-> ipFromStr(peerList[n].first, NoAddress.ip).ret,
                     port |-> peerList[n].second]]
    IN sendMessage(e1, p, [StellarMessage(PEERS) EXCEPT !.peers = addrs])

RECURSIVE recvPeersLoop(_, _, _)
recvPeersLoop(e, peers, n) ==
    IF n > Len(peers) THEN e
    ELSE recvPeersLoop(
            AddCall(e, [Call("addPeer") EXCEPT !.ip = ipToStr(peers[n].ip),
                                               !.port = peers[n].port]),
            peers, n + 1)

recvPeers(e, p, msg) == recvPeersLoop(e, msg.peers, 1)

recvGetPeers(e, p, msg, peerList) == sendPeers(e, p, peerList)

\* ------------------------------------------------------- flood coordinator
\* sha512_256 of the XDR form: one hash per distinct content, never shared
\* between an envelope and a whole message.
EnvHash(envelope) == 100 + 10 * envelope.slotIndex + envelope.statement

MsgHash(msg) ==
    IF msg.type = TRANSACTION THEN 200 + msg.transaction
    ELSE 300 + EnvHash(msg.fbaMessage)

\* The sessions the Flood Coordinator can send to.
Connected(q) == created[q] /\ ~dropped[q] /\ mState[q] >= CONNECTED

\* msg on every session of qs, lowest id first.
RECURSIVE SendAll(_, _, _)
SendAll(e, qs, msg) ==
    IF qs = {} THEN e
    ELSE LET q == CHOOSE x \in qs : \A y \in qs : x <= y
         IN SendAll(sendMessage(e, q, msg), qs \ {q}, msg)

\* An unseen hash is marked seen and msg goes to every connected session
\* but the origin; a seen hash does nothing.
Flood(e, hash, msg, origin) ==
    IF hash \in e.seen THEN e
    ELSE SendAll([e EXCEPT !.seen = @ \cup {hash}, !.fanouts = Append(@, hash)],
                 {q \in PeerIds \ {origin} : Connected(q)}, msg)

recvFloodedMsg(e, hash, msg, slot, origin) ==
    Flood(AddCall(e, [Call("recvFloodedMsg") EXCEPT !.hash = hash, !.msg = msg,
                                                   !.slot = slot, !.peer = origin]),
          hash, msg, origin)

broadcastMessage(e, msg, origin) ==
    Flood(AddCall(e, [Call("broadcastMessage") EXCEPT !.msg = msg, !.peer = origin]),
          MsgHash(msg), msg, origin)

\* -------------------------------------------------------- consensus gateway
\* TransactionFrame::makeTransactionFromWire: payload 0 does not deserialise.
makeTransactionFromWire(payload) == IF payload = 0 THEN Null ELSE payload

\* The gateway's admission check: valid (payload 1 is not) and novel.
AdmitTransaction(known, transaction) == transaction # 1 /\ transaction \notin known

\* ----------------------------------------------------------------- handlers
\* Faulty variant: an Error message drops the session.
recvError_Drops(e, p, msg) == drop(e)

recvError(e, p, msg) == e

recvGetValidations(e, p, msg) == e

recvValidations(e, p, msg) == e

\* Faulty variant: the identity is recorded but the state is not advanced.
recvHello_KeepsState(e, p, msg) ==
    [e EXCEPT !.rpv = msg.hello.protocolVersion,
              !.rv = msg.hello.versionStr,
              !.rlp = msg.hello.port]

recvHello(e, p, msg) ==
    [e EXCEPT !.rpv = msg.hello.protocolVersion,
              !.rv = msg.hello.versionStr,
              !.rlp = msg.hello.port,
              !.st = GOT_HELLO]

\* Faulty variant: the two gateway notifications are exchanged.
recvDontHave_Swapped(e, p, msg) ==
    CASE msg.dhType = TX_SET ->
            AddCall(e, [Call("doesntHaveFBAQuorumSet") EXCEPT !.hash = msg.reqHash, !.peer = p])
      [] msg.dhType = FBA_QUORUMSET ->
            AddCall(e, [Call("doesntHaveTxSet") EXCEPT !.hash = msg.reqHash, !.peer = p])
      [] OTHER -> e

recvDontHave(e, p, msg) ==
    CASE msg.dhType = TX_SET ->
            AddCall(e, [Call("doesntHaveTxSet") EXCEPT !.hash = msg.reqHash, !.peer = p])
      [] msg.dhType = FBA_QUORUMSET ->
            AddCall(e, [Call("doesntHaveFBAQuorumSet") EXCEPT !.hash = msg.reqHash, !.peer = p])
      [] OTHER -> e

\* Faulty variant: the lookup forces a refresh.
recvGetTxSet_ForceRefresh(e, p, msg, fetched) ==
    LET e1 == AddCall(e, [Call("fetchTxSet") EXCEPT !.hash = msg.txSetHash, !.force = TRUE])
    IN IF fetched # Null
       THEN sendMessage(e1, p, [StellarMessage(TX_SET) EXCEPT !.txSet = fetched])
       ELSE sendDontHave(e1, p, TX_SET, msg.txSetHash)

\* fetched is what the gateway's fetchTxSet(hash, false) returns.
recvGetTxSet(e, p, msg, fetched) ==
    LET e1 == AddCall(e, [Call("fetchTxSet") EXCEPT !.hash = msg.txSetHash, !.force = FALSE])
    IN IF fetched # Null
       THEN sendMessage(e1, p, [StellarMessage(TX_SET) EXCEPT !.txSet = fetched])
       ELSE sendDontHave(e1, p, TX_SET, msg.txSetHash)

recvTxSet(e, p, msg) == AddCall(e, [Call("recvTxSet") EXCEPT !.item = msg.txSet])

\* Faulty variant: the transaction is rebroadcast without naming the session
\* it arrived on.
recvTransaction_NoOrigin(e, p, msg) ==
    LET transaction == makeTransactionFromWire(msg.transaction)
    IN IF transaction # Null
       THEN LET e1 == AddCall(e, [Call("recvTransaction") EXCEPT !.item = transaction])
            IN IF AdmitTransaction(e.known, transaction)
               THEN broadcastMessage([e1 EXCEPT !.known = @ \cup {transaction}], msg, 0)
               ELSE e1
       ELSE e

\* Faulty variant: the gateway's verdict is ignored.
recvTransaction_IgnoresAdmission(e, p, msg) ==
    LET transaction == makeTransactionFromWire(msg.transaction)
    IN IF transaction # Null
       THEN LET e1 == AddCall(e, [Call("recvTransaction") EXCEPT !.item = transaction])
            IN broadcastMessage(
                    [e1 EXCEPT !.known = IF AdmitTransaction(e.known, transaction)
                                         THEN @ \cup {transaction} ELSE @],
                    msg, p)
       ELSE e

recvTransaction(e, p, msg) ==
    LET transaction == makeTransactionFromWire(msg.transaction)
    IN IF transaction # Null
       THEN LET e1 == AddCall(e, [Call("recvTransaction") EXCEPT !.item = transaction])
            IN IF AdmitTransaction(e.known, transaction)
               THEN broadcastMessage([e1 EXCEPT !.known = @ \cup {transaction}], msg, p)
               ELSE e1
       ELSE e

\* Faulty variant: the miss is reported under the transaction set's kind.
recvGetFBAQuorumSet_WrongKind(e, p, msg, fetched) ==
    LET e1 == AddCall(e, [Call("fetchFBAQuorumSet") EXCEPT !.hash = msg.qSetHash, !.force = FALSE])
    IN IF fetched # Null
       THEN sendFBAQuorumSet(e1, p, fetched)
       ELSE sendDontHave(e1, p, TX_SET, msg.qSetHash)

\* fetched is what the gateway's fetchFBAQuorumSet(hash, false) returns.
recvGetFBAQuorumSet(e, p, msg, fetched) ==
    LET e1 == AddCall(e, [Call("fetchFBAQuorumSet") EXCEPT !.hash = msg.qSetHash, !.force = FALSE])
    IN IF fetched # Null
       THEN sendFBAQuorumSet(e1, p, fetched)
       ELSE sendDontHave(e1, p, FBA_QUORUMSET, msg.qSetHash)

recvFBAQuorumSet(e, p, msg) == AddCall(e, [Call("recvFBAQuorumSet") EXCEPT !.item = msg.qSet])

\* Faulty variant: an envelope already seen is not handed to the gateway.
recvFBAMessage_GatewayIfNovel(e, p, msg) ==
    LET envelope == msg.fbaMessage
        envHash == EnvHash(envelope)
        e1 == recvFloodedMsg(e, envHash, msg, envelope.slotIndex, p)
    IN IF envHash \in e.seen THEN e1
       ELSE AddCall(e1, [Call("recvFBAEnvelope") EXCEPT !.hash = envHash,
                                                        !.item = envelope.statement,
                                                        !.slot = envelope.slotIndex])

recvFBAMessage(e, p, msg) ==
    LET envelope == msg.fbaMessage
        envHash == EnvHash(envelope)
        e1 == recvFloodedMsg(e, envHash, msg, envelope.slotIndex, p)
    IN AddCall(e1, [Call("recvFBAEnvelope") EXCEPT !.hash = envHash, !.item = envelope.statement,
                                                  !.slot = envelope.slotIndex])

\* The collaborators' answers one call of recvMessage may consume.
Answers(fetched, peerList, ndebug) ==
    [fetched |-> fetched, peerList |-> peerList, ndebug |-> ndebug]

\* The switch of Peer::recvMessage.  assert(false) aborts the process
\* unless the build defines NDEBUG, where it is no statement at all.
dispatch(e, p, msg, x) ==
    CASE msg.type = ERROR_MSG -> recvError(e, p, msg)
      [] msg.type = HELLO -> recvHello(e, p, msg)
      [] msg.type = DONT_HAVE -> recvDontHave(e, p, msg)
      [] msg.type = GET_PEERS -> recvGetPeers(e, p, msg, x.peerList)
      [] msg.type = PEERS -> recvPeers(e, p, msg)
      [] msg.type = GET_TX_SET -> recvGetTxSet(e, p, msg, x.fetched)
      [] msg.type = TX_SET -> recvTxSet(e, p, msg)
      [] msg.type = GET_VALIDATIONS -> recvGetValidations(e, p, msg)
      [] msg.type = VALIDATIONS -> recvValidations(e, p, msg)
      [] msg.type = TRANSACTION -> recvTransaction(e, p, msg)
      [] msg.type = GET_FBA_QUORUMSET -> recvGetFBAQuorumSet(e, p, msg, x.fetched)
      [] msg.type = FBA_QUORUMSET -> recvFBAQuorumSet(e, p, msg)
      [] msg.type = FBA_MESSAGE -> recvFBAMessage(e, p, msg)
      [] msg.type = JSON_TRANSACTION ->
            IF x.ndebug THEN e ELSE [e EXCEPT !.abort = TRUE]
      [] OTHER -> e

\* Faulty variant: the gate compares against CONNECTED.
recvMessage_GateBelowConnected(e, p, msg, x) ==
    IF e.st < CONNECTED /\ msg.type # HELLO
    THEN drop(e)
    ELSE dispatch(e, p, msg, x)

\* Peer::recvMessage(StellarMessage const&): the handshake gate, then the switch.
recvMessage(e, p, msg, x) ==
    IF e.st < GOT_HELLO /\ msg.type # HELLO
    THEN drop(e)
    ELSE dispatch(e, p, msg, x)

\* Faulty variant: a failed connect still says Hello before dropping.
connectHandler_ErrorSaysHello(e, p, error) ==
    IF error
    THEN drop(sendHello(e, p))
    ELSE sendHello([e EXCEPT !.st = CONNECTED], p)

\* Faulty variant: a successful connect leaves the state at Connecting.
connectHandler_NoStateChange(e, p, error) ==
    IF error
    THEN drop(e)
    ELSE sendHello(e, p)

connectHandler(e, p, error) ==
    IF error
    THEN drop(e)
    ELSE sendHello([e EXCEPT !.st = CONNECTED], p)

\* ------------------------------------------------------------------- inputs
Hashes == {1, 2}

\* The item the gateway's store holds under a hash, when it holds one.
Stored(hash) == 10 + hash

HelloBodies ==
    {[protocolVersion |-> 9, versionStr |-> "v1", port |-> 11625],
     [protocolVersion |-> 10, versionStr |-> "v2", port |-> 11626]}

Envelopes == {[slotIndex |-> 1, statement |-> 1], [slotIndex |-> 1, statement |-> 2]}

EnvHashes == {EnvHash(env) : env \in Envelopes}

\* Transaction payloads: 0 does not deserialise, 1 is invalid, 2 is valid.
Transactions == {0, 1, 2}

\* Peers lists as they arrive on the wire.
WirePeerLists ==
    {<<>>,
     <<[ip |-> <<1, 2, 3, 4>>, port |-> 100]>>,
     <<[ip |-> <<1, 2, 3, 4>>, port |-> 100], [ip |-> <<1, 2, 3, 0>>, port |-> 0]>>}

\* n directory rows, all well formed.
Rows(n) == [i \in 1..n |-> [first |-> <<10, 0, 0, i>>, second |-> 1000 + i]]

\* What the Peer Directory's loadPeers may hand back: (dotted string, port)
\* rows, among them strings with three items, five items and an item over 255.
DirectoryLists ==
    {<<>>,
     <<[first |-> <<1, 2, 3, 4>>, second |-> 100]>>,
     <<[first |-> <<1, 2, 3, 4>>, second |-> 100], [first |-> <<1, 2, 3>>, second |-> 0]>>,
     <<[first |-> <<1, 2, 3, 4, 5>>, second |-> 7], [first |-> <<300, 2, 3, 4>>, second |-> 8]>>,
     Rows(PEERS_LIMIT),
     Rows(PEERS_LIMIT + 1)}

DontHaveTypes == {TX_SET, FBA_QUORUMSET, VALIDATIONS, GET_PEERS}

HelloMsgs == {[StellarMessage(HELLO) EXCEPT !.hello = h] : h \in HelloBodies}

DontHaveMsgs ==
    {[StellarMessage(DONT_HAVE) EXCEPT !.dhType = t, !.reqHash = h] :
        t \in DontHaveTypes, h \in Hashes}

FetchMsgs ==
    {[StellarMessage(GET_TX_SET) EXCEPT !.txSetHash = h] : h \in Hashes}
    \cup {[StellarMessage(GET_FBA_QUORUMSET) EXCEPT !.qSetHash = h] : h \in Hashes}

PeersMsgs ==
    {StellarMessage(GET_PEERS)}
    \cup {[StellarMessage(PEERS) EXCEPT !.peers = l] : l \in WirePeerLists}

TransactionMsgs == {[StellarMessage(TRANSACTION) EXCEPT !.transaction = t] : t \in Transactions}

EnvelopeMsgs == {[StellarMessage(FBA_MESSAGE) EXCEPT !.fbaMessage = env] : env \in Envelopes}

\* One message of every kind recvMessage dispatches on, and a second Hello.
DispatchMsgs ==
    HelloMsgs
    \cup {StellarMessage(t) : t \in {ERROR_MSG, GET_PEERS, GET_VALIDATIONS,
                                     VALIDATIONS, JSON_TRANSACTION}}
    \cup {[StellarMessage(DONT_HAVE) EXCEPT !.dhType = TX_SET, !.reqHash = 1],
          [StellarMessage(PEERS) EXCEPT !.peers = <<[ip |-> <<1, 2, 3, 4>>, port |-> 100]>>],
          [StellarMessage(GET_TX_SET) EXCEPT !.txSetHash = 1],
          [StellarMessage(GET_FBA_QUORUMSET) EXCEPT !.qSetHash = 2],
          [StellarMessage(TX_SET) EXCEPT !.txSet = Stored(1)],
          [StellarMessage(FBA_QUORUMSET) EXCEPT !.qSet = Stored(2)],
          [StellarMessage(TRANSACTION) EXCEPT !.transaction = 1],
          [StellarMessage(FBA_MESSAGE) EXCEPT !.fbaMessage = [slotIndex |-> 1, statement |-> 1]]}

NoAnswer == Answers(Null, <<>>, FALSE)

\* The answers the collaborators can give to the calls msg leads to, the
\* Peer Directory answering with one of lists.
AnswersTo(msg, lists) ==
    CASE msg.type = GET_PEERS -> {Answers(Null, l, FALSE) : l \in lists}
      [] msg.type = GET_TX_SET ->
            {Answers(f, <<>>, FALSE) : f \in {Null, Stored(msg.txSetHash)}}
      [] msg.type = GET_FBA_QUORUMSET ->
            {Answers(f, <<>>, FALSE) : f \in {Null, Stored(msg.qSetHash)}}
      [] msg.type = JSON_TRANSACTION -> {Answers(Null, <<>>, b) : b \in BOOLEAN}
      [] OTHER -> {NoAnswer}

\* ------------------------------------------------------------------ history
NoStats == [recv |-> 0, origins |-> {}, offered |-> 0, fanout |-> 0, delivered |-> 0]

\* How many calls of fn about hash h there are in calls.
CountCalls(calls, fn, h) ==
    Cardinality({i \in 1..Len(calls) : calls[i].fn = fn /\ calls[i].hash = h})

\* How many fan-outs of hash h there are in fanouts.
CountFanouts(fanouts, h) == Cardinality({i \in 1..Len(fanouts) : fanouts[i] = h})

\* What session p and the node were before the event.
Before(p) ==
    [created |-> created[p],
     role |-> mRole[p],
     st |-> mState[p],
     rpv |-> mRemoteProtocolVersion[p],
     rv |-> mRemoteVersion[p],
     rlp |-> mRemoteListeningPort[p],
     dropped |-> dropped,
     helloSent |-> helloSent,
     connected |-> {q \in PeerIds : Connected(q)},
     seen |-> floodSeen,
     known |-> knownTx,
     queued |-> Len(ioQueue)]

\* No event yet.
NoEvent ==
    [op |-> "init", peer |-> 0, msg |-> NoMsg, error |-> FALSE, x |-> NoAnswer,
     pre |-> [created |-> FALSE, role |-> NOROLE, st |-> CONNECTING, rpv |-> INDETERMINATE,
              rv |-> "", rlp |-> NO_PORT, dropped |-> [p \in PeerIds |-> FALSE],
              helloSent |-> [p \in PeerIds |-> FALSE],
              connected |-> {}, seen |-> {}, known |-> {}, queued |-> 0],
     drop |-> FALSE, out |-> <<>>, calls |-> <<>>, fanouts |-> <<>>, abort |-> FALSE]

Event(op, p, msg, error, x, e) ==
    [op |-> op, peer |-> p, msg |-> msg, error |-> error, x |-> x,
     pre |-> Before(p), drop |-> e.drop, out |-> e.out, calls |-> e.calls,
     fanouts |-> e.fanouts, abort |-> e.abort]

\* The event is the receipt, past the handshake gate, of the envelope with hash h.
Passed(event, h) ==
    /\ event.op = "recv"
    /\ event.msg.type = FBA_MESSAGE
    /\ EnvHash(event.msg.fbaMessage) = h
    /\ event.pre.st = GOT_HELLO

\* The effect e of session p's handler becomes the next state.
Apply(p, e, event) ==
    /\ mState' = [mState EXCEPT ![p] = e.st]
    /\ mRemoteProtocolVersion' = [mRemoteProtocolVersion EXCEPT ![p] = e.rpv]
    /\ mRemoteVersion' = [mRemoteVersion EXCEPT ![p] = e.rv]
    /\ mRemoteListeningPort' = [mRemoteListeningPort EXCEPT ![p] = e.rlp]
    /\ dropped' = [dropped EXCEPT ![p] = @ \/ e.drop]
    /\ floodSeen' = e.seen
    /\ knownTx' = e.known
    /\ aborted' = e.abort
    /\ helloSent' = [q \in PeerIds |->
                        helloSent[q] \/ \E i \in 1..Len(e.out) :
                                            e.out[i].peer = q /\ e.out[i].msg.type = HELLO]
    /\ envStats' = [h \in EnvHashes |->
            [recv |-> envStats[h].recv + (IF Passed(event, h) THEN 1 ELSE 0),
             origins |-> envStats[h].origins \cup (IF Passed(event, h) THEN {p} ELSE {}),
             offered |-> envStats[h].offered +
                        CountCalls(e.calls, "recvFloodedMsg", h),
             fanout |-> envStats[h].fanout + CountFanouts(e.fanouts, h),
             delivered |-> envStats[h].delivered +
                        CountCalls(e.calls, "recvFBAEnvelope", h)]]
    /\ ev' = event

\* ------------------------------------------------------------------ actions
Init ==
    /\ created = [p \in PeerIds |-> FALSE]
    /\ mRole = [p \in PeerIds |-> NOROLE]
    /\ mState = [p \in PeerIds |-> CONNECTING]
    /\ mRemoteProtocolVersion = [p \in PeerIds |-> INDETERMINATE]
    /\ mRemoteVersion = [p \in PeerIds |-> ""]
    /\ mRemoteListeningPort = [p \in PeerIds |-> NO_PORT]
    /\ dropped = [p \in PeerIds |-> FALSE]
    /\ connectPending = [p \in PeerIds |-> FALSE]
    /\ ioQueue = <<>>
    /\ floodSeen = {}
    /\ knownTx = {}
    /\ aborted = FALSE
    /\ helloSent = [p \in PeerIds |-> FALSE]
    /\ envStats = [h \in EnvHashes |-> NoStats]
    /\ ev = NoEvent
    /\ wire = [p \in PeerIds |-> <<>>]
    /\ asks = 0

\* Faulty variant: the Acceptor's constructor sends its Hello itself.
PeerCtor_HelloInline(p, role) ==
    /\ ~aborted
    /\ ~created[p]
    /\ created' = [created EXCEPT ![p] = TRUE]
    /\ mRole' = [mRole EXCEPT ![p] = role]
    /\ connectPending' = [connectPending EXCEPT ![p] = (role = INITIATOR)]
    /\ ioQueue' = ioQueue
    /\ LET e0 == [Begin(p) EXCEPT !.st = IF role = ACCEPTOR THEN CONNECTED ELSE CONNECTING,
                                  !.rlp = NO_PORT]
           e == IF role = ACCEPTOR THEN sendHello(e0, p) ELSE e0
       IN Apply(p, e, Event("ctor", p, NoMsg, FALSE, NoAnswer, e))

\* Peer::Peer(app, role): the Acceptor's Hello is posted, not sent.
PeerCtor(p, role) ==
    /\ ~aborted
    /\ ~created[p]
    /\ created' = [created EXCEPT ![p] = TRUE]
    /\ mRole' = [mRole EXCEPT ![p] = role]
    /\ connectPending' = [connectPending EXCEPT ![p] = (role = INITIATOR)]
    /\ ioQueue' = IF role = ACCEPTOR THEN Append(ioQueue, p) ELSE ioQueue
    /\ LET e == [Begin(p) EXCEPT !.st = IF role = ACCEPTOR THEN CONNECTED ELSE CONNECTING,
                                 !.rlp = NO_PORT]
       IN Apply(p, e, Event("ctor", p, NoMsg, FALSE, NoAnswer, e))

\* The io service runs the oldest posted task: [this]() { this->sendHello(); }
RunTask ==
    /\ ~aborted
    /\ ioQueue # <<>>
    /\ ioQueue' = Tail(ioQueue)
    /\ UNCHANGED <<created, mRole, connectPending>>
    /\ LET p == Head(ioQueue)
           e == sendHello(Begin(p), p)
       IN Apply(p, e, Event("task", p, NoMsg, FALSE, NoAnswer, e))

\* The transport reports the outcome of the Initiator's connect.  A
\* transport that was closed by drop() can only report an error.
ConnectDone(p, error) ==
    /\ ~aborted
    /\ created[p]
    /\ connectPending[p]
    /\ error \/ ~dropped[p]
    /\ connectPending' = [connectPending EXCEPT ![p] = FALSE]
    /\ UNCHANGED <<created, mRole, ioQueue>>
    /\ LET e == connectHandler(Begin(p), p, error)
       IN Apply(p, e, Event("connect", p, NoMsg, error, NoAnswer, e))

\* The transport delivers one decoded message to a session it has not closed.
Recv(p, msg, x) ==
    /\ ~aborted
    /\ created[p]
    /\ ~dropped[p]
    /\ msg.type = FBA_MESSAGE => envStats[EnvHash(msg.fbaMessage)].recv < MaxFlood
    /\ UNCHANGED <<created, mRole, connectPending, ioQueue>>
    /\ LET e == recvMessage(Begin(p), p, msg, x)
       IN Apply(p, e, Event("recv", p, msg, FALSE, x, e))

\* Every step the node can take when the remote side sends from msgs and
\* the Peer Directory answers with one of lists.
NextOver(msgs, lists) ==
    /\ UNCHANGED <<wire, asks>>
    /\ \/ \E p \in PeerIds, role \in {ACCEPTOR, INITIATOR} : PeerCtor(p, role)
       \/ RunTask
       \/ \E p \in PeerIds, error \in BOOLEAN : ConnectDone(p, error)
       \/ \E p \in PeerIds, msg \in msgs : \E x \in AnswersTo(msg, lists) : Recv(p, msg, x)

\* Handshake and dispatch: every message kind.
Next == NextOver(DispatchMsgs, {<<[first |-> <<1, 2, 3, 4>>, second |-> 100]>>})

Spec == Init /\ [][Next]_vars

\* Fetch protocol: every request, answer and NotHave.
NextFetch == NextOver(HelloMsgs \cup FetchMsgs \cup DontHaveMsgs, {<<>>})

SpecFetch == Init /\ [][NextFetch]_vars

\* Peer exchange: every directory answer and wire list.
NextPeers == NextOver(HelloMsgs \cup PeersMsgs, DirectoryLists)

SpecPeers == Init /\ [][NextPeers]_vars

\* Flood: every transaction and envelope.
NextFlood ==
    NextOver({[StellarMessage(HELLO) EXCEPT !.hello = [protocolVersion |-> 9, versionStr |-> "v1", port |-> 11625]]}
             \cup TransactionMsgs \cup EnvelopeMsgs, {<<>>})

SpecFlood == Init /\ [][NextFlood]_vars

\* ---------------------------------------------------------------- linked pair
\* Two sessions joined by one connection, an Acceptor and an Initiator whose
\* connect succeeds: what one sends travels, in order, to the other.  The
\* exchange touches no node-level state, so the two ends share the variables
\* of one node.
Other(p) == CHOOSE q \in PeerIds : q # p

\* The messages among out that were sent on session p, in order.
SentOn(out, p) ==
    LET mine == SelectSeq(out, LAMBDA o : o.peer = p)
    IN [i \in 1..Len(mine) |-> mine[i].msg]

\* What the step sent joins the wires; taken holds the session, if any,
\* whose oldest incoming message the step consumed.
Transmit(taken) ==
    wire' = [q \in PeerIds |->
                (IF q \in taken THEN Tail(wire[q]) ELSE wire[q]) \o SentOn(ev'.out, Other(q))]

LinkCtor(p, role) ==
    /\ \A q \in PeerIds : created[q] => mRole[q] # role
    /\ PeerCtor(p, role)
    /\ Transmit({})
    /\ UNCHANGED asks

LinkTask ==
    /\ RunTask
    /\ Transmit({})
    /\ UNCHANGED asks

LinkConnect(p) ==
    /\ ConnectDone(p, FALSE)
    /\ Transmit({})
    /\ UNCHANGED asks

\* The transport hands session p the oldest message in flight towards it.
LinkDeliver(p, x) ==
    /\ wire[p] # <<>>
    /\ x \in AnswersTo(Head(wire[p]), DirectoryLists)
    /\ Recv(p, Head(wire[p]), x)
    /\ Transmit({p})
    /\ UNCHANGED asks

\* Once both ends are in HandshakeComplete the Acceptor asks for peers.
LinkAsk(p) ==
    /\ ~aborted
    /\ asks < MaxAsks
    /\ created[p]
    /\ mRole[p] = ACCEPTOR
    /\ \A q \in PeerIds : created[q] /\ ~dropped[q] /\ mState[q] = GOT_HELLO
    /\ asks' = asks + 1
    /\ UNCHANGED <<created, mRole, connectPending, ioQueue>>
    /\ LET e == sendMessage(Begin(p), p, StellarMessage(GET_PEERS))
       IN Apply(p, e, Event("ask", p, NoMsg, FALSE, NoAnswer, e))
    /\ Transmit({})

NextLink ==
    \/ \E p \in PeerIds, role \in {ACCEPTOR, INITIATOR} : LinkCtor(p, role)
    \/ LinkTask
    \/ \E p \in PeerIds : LinkConnect(p)
    \/ \E p \in PeerIds : \E x \in {Answers(Null, l, FALSE) : l \in DirectoryLists} \cup {NoAnswer} :
            LinkDeliver(p, x)
    \/ \E p \in PeerIds : LinkAsk(p)

\* The event loop runs every posted task, the connect completes and every
\* message in flight is delivered.
LinkFairness ==
    /\ \A p \in PeerIds : WF_vars(\E role \in {ACCEPTOR, INITIATOR} : LinkCtor(p, role))
    /\ WF_vars(LinkTask)
    /\ \A p \in PeerIds : WF_vars(LinkConnect(p))
    /\ \A p \in PeerIds :
        WF_vars(\E x \in {Answers(Null, l, FALSE) : l \in DirectoryLists} \cup {NoAnswer} :
                    LinkDeliver(p, x))

SpecLink == Init /\ [][NextLink]_vars /\ LinkFairness

\* =================================================================== claims
\* The last event is the receipt of a message of kind t.
Received(t) == ev.op = "recv" /\ ev.msg.type = t

\* The last event is the receipt of a message of kind t by a session that
\* was in HandshakeComplete.
Handled(t) == Received(t) /\ ev.pre.st = GOT_HELLO

\* The messages of the last event sent on session q, in order.
OutOn(q) == SelectSeq(ev.out, LAMBDA o : o.peer = q)

\* The collaborator calls of the last event on function fn, in order.
CallsOf(fn) == SelectSeq(ev.calls, LAMBDA c : c.fn = fn)

\* C1: a message other than Hello received while the session state is below
\* HandshakeComplete drops the session, sends no message on any session and
\* calls no collaborator.
C1_HandshakeGate ==
    (ev.op = "recv" /\ ev.pre.st < GOT_HELLO /\ ev.msg.type # HELLO)
        => /\ ev.drop
           /\ dropped[ev.peer]
           /\ ev.out = <<>>
           /\ ev.calls = <<>>
           /\ ev.fanouts = <<>>
           /\ mState[ev.peer] = ev.pre.st

C1_Witness ==
    /\ Received(GET_TX_SET)
    /\ ev.pre.st = CONNECTED
    /\ dropped[ev.peer]

\* C2: once drop has been called on a session, no message is sent on it and
\* it processes no received message, whatever event comes next.
C2_NoActivityAfterDrop ==
    /\ \A i \in 1..Len(ev.out) : ~ev.pre.dropped[ev.out[i].peer]
    /\ ev.op = "recv" => ~ev.pre.dropped[ev.peer]

\* C3: a Hello is sent on a session only once its state has reached
\* Connected, and on an Initiator session no message is sent before its Hello.
C3_HelloFirst ==
    \A i \in 1..Len(ev.out) :
        LET q == ev.out[i].peer
            m == ev.out[i].msg
        IN /\ m.type = HELLO => mState[q] >= CONNECTED
           /\ (mRole[q] = INITIATOR /\ m.type # HELLO)
                => \/ ev.pre.helloSent[q]
                   \/ \E j \in 1..(i - 1) : ev.out[j].peer = q /\ ev.out[j].msg.type = HELLO

\* C4: the remote identity fields are written by the first Hello a session
\* receives and by nothing else: every other event, a later Hello included,
\* leaves them as they were.
C4_IdentitySetOnce ==
    ev.op \in {"recv", "task", "connect"} =>
        LET p == ev.peer
            first == Received(HELLO) /\ ev.pre.rpv = INDETERMINATE
        IN IF first
           THEN /\ mRemoteProtocolVersion[p] = ev.msg.hello.protocolVersion
                /\ mRemoteVersion[p] = ev.msg.hello.versionStr
                /\ mRemoteListeningPort[p] = ev.msg.hello.port
           ELSE /\ mRemoteProtocolVersion[p] = ev.pre.rpv
                /\ mRemoteVersion[p] = ev.pre.rv
                /\ mRemoteListeningPort[p] = ev.pre.rlp

\* C5: a GetTxSet(H) or GetQuorumSet(H) handled in HandshakeComplete whose
\* hash the gateway does not hold is answered by exactly one message, the
\* NotHave that names the requested class and H, and by no item message.
C5_NotHaveEcho ==
    /\ (Handled(GET_TX_SET) /\ ev.x.fetched = Null)
        => ev.out = <<[peer |-> ev.peer,
                       msg |-> [StellarMessage(DONT_HAVE) EXCEPT
                                   !.dhType = TX_SET, !.reqHash = ev.msg.txSetHash]]>>
    /\ (Handled(GET_FBA_QUORUMSET) /\ ev.x.fetched = Null)
        => ev.out = <<[peer |-> ev.peer,
                       msg |-> [StellarMessage(DONT_HAVE) EXCEPT
                                   !.dhType = FBA_QUORUMSET, !.reqHash = ev.msg.qSetHash]]>>

C5_Witness ==
    /\ Handled(GET_FBA_QUORUMSET)
    /\ ev.x.fetched = Null
    /\ ev.msg.qSetHash = 2
    /\ Len(ev.out) = 1
    /\ ev.out[1].msg.type = DONT_HAVE

\* C6: a Peers message sent in answer to GetPeers never holds more than 50
\* entries, however many rows loadPeers(50) handed back.
C6_PeersAtMost50 ==
    \A i \in 1..Len(ev.out) :
        ev.out[i].msg.type = PEERS => Len(ev.out[i].msg.peers) <= PEERS_LIMIT

\* A dotted string with exactly four fields, each an octet.
WellFormed(ipStr) == Len(ipStr) = 4 /\ \A k \in 1..4 : ipStr[k] \in 0..(U8 - 1)

\* C7: malformed address entries are skipped one by one: the Peers message
\* built from a directory list holds the well-formed rows and only them, in
\* order; every entry of a received Peers message that prints as a
\* well-formed address gets its addPeer call; the session is never dropped.
C7_MalformedSkipped ==
    /\ Handled(GET_PEERS)
        => LET good == SelectSeq(ev.x.peerList, LAMBDA r : WellFormed(r.first))
           IN /\ ~ev.drop
              /\ Len(ev.out) = 1
              /\ ev.out[1].msg.type = PEERS
              /\ ev.out[1].msg.peers =
                    [n \in 1..Len(good) |-> [ip |-> good[n].first, port |-> good[n].second]]
    /\ Handled(PEERS)
        => /\ ~ev.drop
           /\ ev.calls = [n \in 1..Len(ev.msg.peers) |->
                            [Call("addPeer") EXCEPT !.ip = ev.msg.peers[n].ip,
                                                    !.port = ev.msg.peers[n].port]]

\* C8: every receipt of a consensus envelope by a session in HandshakeComplete
\* is offered to the Flood Coordinator and delivered to the Consensus Gateway,
\* and an envelope received at all is fanned out exactly once in total.
C8_DedupOnlyRebroadcast ==
    \A h \in EnvHashes :
        /\ envStats[h].offered = envStats[h].recv
        /\ envStats[h].delivered = envStats[h].recv
        /\ envStats[h].fanout = IF envStats[h].recv > 0 THEN 1 ELSE 0

C8_Witness ==
    \E h \in EnvHashes :
        /\ envStats[h].origins = PeerIds
        /\ envStats[h].recv = 2
        /\ envStats[h].delivered = 2
        /\ envStats[h].fanout = 1
        /\ Handled(FBA_MESSAGE)
        /\ EnvHash(ev.msg.fbaMessage) = h
        /\ ev.fanouts = <<>>

\* The content hash the Flood Coordinator keys the last received item by.
FloodKey == IF ev.msg.type = TRANSACTION THEN MsgHash(ev.msg) ELSE EnvHash(ev.msg.fbaMessage)

\* The last received item is one the node floods: an envelope, or a
\* transaction that deserialises and that the gateway admits.
Floodable ==
    \/ Handled(FBA_MESSAGE)
    \/ /\ Handled(TRANSACTION)
       /\ makeTransactionFromWire(ev.msg.transaction) # Null
       /\ AdmitTransaction(ev.pre.known, ev.msg.transaction)

\* C9: a flooded item whose hash was unseen goes out as the received message
\* itself, once on every session connected at that moment except the one it
\* arrived on; an item whose hash was seen goes out on no session.
C9_FloodToOthers ==
    Floodable =>
        IF FloodKey \in ev.pre.seen
        THEN ev.out = <<>>
        ELSE /\ \A i \in 1..Len(ev.out) : ev.out[i].msg = ev.msg /\ ev.out[i].peer # ev.peer
             /\ \A q \in ev.pre.connected \ {ev.peer} : Len(OutOn(q)) = 1
             /\ \A q \in PeerIds \ ev.pre.connected : OutOn(q) = <<>>

C9_Witness ==
    /\ Handled(FBA_MESSAGE)
    /\ FloodKey \notin ev.pre.seen
    /\ ev.pre.connected = PeerIds
    /\ Len(ev.out) = 1
    /\ ev.out[1].peer # ev.peer
    /\ ev.out[1].msg = ev.msg

\* C10: a received transaction is rebroadcast exactly when it deserialises
\* and the gateway admits it; otherwise nothing is sent and nothing is
\* offered for flooding; in both cases nothing goes back on the session it
\* arrived on and that session is not dropped.
C10_AdmissionGatesFlood ==
    Handled(TRANSACTION) =>
        LET admitted == /\ makeTransactionFromWire(ev.msg.transaction) # Null
                        /\ AdmitTransaction(ev.pre.known, ev.msg.transaction)
        IN /\ admitted <=> ev.fanouts = <<MsgHash(ev.msg)>>
           /\ admitted <=> Len(CallsOf("broadcastMessage")) = 1
           /\ ~admitted => ev.out = <<>> /\ ev.fanouts = <<>>
           /\ OutOn(ev.peer) = <<>>
           /\ ~ev.drop
           /\ ~dropped[ev.peer]

C10_Witness ==
    /\ Handled(TRANSACTION)
    /\ ev.msg.transaction = 2
    /\ ev.fanouts = <<MsgHash(ev.msg)>>
    /\ Len(ev.out) = 1
    /\ ev.out[1].peer # ev.peer

\* C11: with an Acceptor and an Initiator joined by one connection, the
\* Initiator's connect succeeding, every posted task run and every message
\* delivered in order, both sessions eventually are in HandshakeComplete,
\* neither is ever dropped, and every GetPeers the Acceptor sends afterwards
\* is answered by one Peers message that reaches the Acceptor.
C11_HandshakeCompletes ==
    /\ <>(\A p \in PeerIds : created[p] /\ mState[p] = GOT_HELLO)
    /\ [](\A p \in PeerIds : ~dropped[p])
    /\ [](Handled(GET_PEERS) =>
            /\ Len(ev.out) = 1
            /\ ev.out[1].peer = ev.peer
            /\ ev.out[1].msg.type = PEERS)
    /\ (asks > 0) ~> (Received(PEERS) /\ mRole[ev.peer] = ACCEPTOR)

\* The Hello a session sends.
OwnHello ==
    [StellarMessage(HELLO) EXCEPT
        !.hello = [protocolVersion |-> PROTOCOL_VERSION, versionStr |-> VERSION_STR, port |-> 0]]

\* The last event left the identity fields of its session as they were.
IdentityKept ==
    /\ mRemoteProtocolVersion[ev.peer] = ev.pre.rpv
    /\ mRemoteVersion[ev.peer] = ev.pre.rv
    /\ mRemoteListeningPort[ev.peer] = ev.pre.rlp

\* The last event left the node-level state and every other session's
\* standing as they were.
OthersKept ==
    /\ floodSeen = ev.pre.seen
    /\ knownTx = ev.pre.known
    /\ ~aborted
    /\ \A q \in PeerIds \ {ev.peer} :
        /\ dropped[q] = ev.pre.dropped[q]
        /\ helloSent[q] = ev.pre.helloSent[q]
        /\ Connected(q) <=> q \in ev.pre.connected

\* C12: constructing a session sends nothing and calls nothing.  An Acceptor
\* starts in Connected with its Hello appended to the io service's queue and
\* not yet sent; the Hello goes out, alone, when that task runs.  An
\* Initiator starts in Connecting and queues nothing.
C12_HelloDeferred ==
    /\ ev.op = "ctor" =>
        /\ ev.out = <<>>
        /\ ev.calls = <<>>
        /\ ~helloSent[ev.peer]
        /\ IF mRole[ev.peer] = ACCEPTOR
           THEN /\ mState[ev.peer] = CONNECTED
                /\ Len(ioQueue) = ev.pre.queued + 1
                /\ ioQueue[Len(ioQueue)] = ev.peer
           ELSE /\ mState[ev.peer] = CONNECTING
                /\ Len(ioQueue) = ev.pre.queued
                /\ \A i \in 1..Len(ioQueue) : ioQueue[i] # ev.peer
    /\ ev.op = "task" =>
        /\ mRole[ev.peer] = ACCEPTOR
        /\ ev.out = <<[peer |-> ev.peer, msg |-> OwnHello]>>
        /\ Len(ioQueue) = ev.pre.queued - 1

C12_Witness ==
    /\ ev.op = "ctor"
    /\ mRole[ev.peer] = ACCEPTOR
    /\ mState[ev.peer] = CONNECTED
    /\ ev.pre.queued = 1
    /\ Len(ioQueue) = 2
    /\ ev.out = <<>>

C14_ConnectCompletion ==
    (ev.op = "connect" /\ ev.pre.st = CONNECTING /\ ~ev.pre.dropped[ev.peer]) =>
        /\ IF ev.error
           THEN /\ ev.drop
                /\ dropped[ev.peer]
                /\ ev.out = <<>>
                /\ ~helloSent[ev.peer]
           ELSE /\ ~ev.drop
                /\ ~dropped[ev.peer]
                /\ mState[ev.peer] = CONNECTED
                /\ ev.out = <<[peer |-> ev.peer, msg |-> OwnHello]>>
        /\ ev.calls = <<>>
        /\ OthersKept

C14_Witness ==
    /\ ev.op = "connect"
    /\ ev.pre.st = CONNECTING
    /\ ev.error
    /\ ~ev.pre.dropped[ev.peer]
    /\ dropped[ev.peer]
    /\ \E q \in PeerIds \ {ev.peer} : Connected(q)

\* C15: a Hello received in Connected records the three identity fields and
\* moves the session to HandshakeComplete; a Hello received in
\* HandshakeComplete leaves it there; neither drops the session, sends a
\* message or calls a collaborator.
C15_HelloAdvances ==
    (Received(HELLO) /\ ev.pre.st \in {CONNECTED, GOT_HELLO}) =>
        /\ mState[ev.peer] = GOT_HELLO
        /\ ev.pre.st = CONNECTED =>
            /\ mRemoteProtocolVersion[ev.peer] = ev.msg.hello.protocolVersion
            /\ mRemoteVersion[ev.peer] = ev.msg.hello.versionStr
            /\ mRemoteListeningPort[ev.peer] = ev.msg.hello.port
        /\ ~ev.drop
        /\ ~dropped[ev.peer]
        /\ ev.out = <<>>
        /\ ev.calls = <<>>

C15_Witness ==
    /\ Received(HELLO)
    /\ ev.pre.st = GOT_HELLO
    /\ mState[ev.peer] = GOT_HELLO
    /\ ~dropped[ev.peer]

\* The last event left its session's state and identity as they were and
\* did not drop it.
SessionKept ==
    /\ mState[ev.peer] = ev.pre.st
    /\ IdentityKept
    /\ ~ev.drop
    /\ ~dropped[ev.peer]

\* C16: a NotHave handled in HandshakeComplete makes exactly one gateway
\* call, naming the hash and this session, when its kind is TxSet
\* (doesntHaveTxSet) or QuorumSet (doesntHaveFBAQuorumSet), and no call for
\* any other kind; it never sends a message or changes the session.
C16_NotHaveNotifies ==
    Handled(DONT_HAVE) =>
        /\ ev.calls =
            (CASE ev.msg.dhType = TX_SET ->
                    <<[Call("doesntHaveTxSet") EXCEPT !.hash = ev.msg.reqHash, !.peer = ev.peer]>>
               [] ev.msg.dhType = FBA_QUORUMSET ->
                    <<[Call("doesntHaveFBAQuorumSet") EXCEPT !.hash = ev.msg.reqHash, !.peer = ev.peer]>>
               [] OTHER -> <<>>)
        /\ ev.out = <<>>
        /\ ev.fanouts = <<>>
        /\ SessionKept
        /\ OthersKept

C16_Witness ==
    /\ Handled(DONT_HAVE)
    /\ ev.msg.dhType = FBA_QUORUMSET
    /\ ev.msg.reqHash = 2
    /\ Len(ev.calls) = 1
    /\ ev.calls[1].peer = ev.peer

\* C17: a GetTxSet or GetQuorumSet handled in HandshakeComplete makes one
\* lookup, without forced refresh, and sends exactly one message, on the
\* session the request came in on: the item of the requested class holding
\* what the lookup returned, or the NotHave for the class and hash.  Nothing
\* is flooded, nothing goes to another session, the session is unchanged.
C17_FetchSingleShot ==
    /\ Handled(GET_TX_SET) =>
        /\ ev.calls = <<[Call("fetchTxSet") EXCEPT !.hash = ev.msg.txSetHash, !.force = FALSE]>>
        /\ ev.out = <<[peer |-> ev.peer,
                       msg |-> IF ev.x.fetched # Null
                               THEN [StellarMessage(TX_SET) EXCEPT !.txSet = ev.x.fetched]
                               ELSE [StellarMessage(DONT_HAVE) EXCEPT
                                        !.dhType = TX_SET, !.reqHash = ev.msg.txSetHash]]>>
        /\ ev.fanouts = <<>>
        /\ SessionKept
        /\ OthersKept
    /\ Handled(GET_FBA_QUORUMSET) =>
        /\ ev.calls = <<[Call("fetchFBAQuorumSet") EXCEPT !.hash = ev.msg.qSetHash, !.force = FALSE]>>
        /\ ev.out = <<[peer |-> ev.peer,
                       msg |-> IF ev.x.fetched # Null
                               THEN [StellarMessage(FBA_QUORUMSET) EXCEPT !.qSet = ev.x.fetched]
                               ELSE [StellarMessage(DONT_HAVE) EXCEPT
                                        !.dhType = FBA_QUORUMSET, !.reqHash = ev.msg.qSetHash]]>>
        /\ ev.fanouts = <<>>
        /\ SessionKept
        /\ OthersKept

C17_Witness ==
    /\ Handled(GET_TX_SET)
    /\ ev.x.fetched = Stored(ev.msg.txSetHash)
    /\ Len(ev.out) = 1
    /\ ev.out[1].msg.type = TX_SET
    /\ \E q \in PeerIds \ {ev.peer} : Connected(q)

\* C18: Error, GetValidations and Validations handled in HandshakeComplete do
\* nothing: no message, no collaborator call, no drop, no abort, session
\* state and identity as before.
C18_Placeholders ==
    (\E t \in {ERROR_MSG, GET_VALIDATIONS, VALIDATIONS} : Handled(t)) =>
        /\ ev.out = <<>>
        /\ ev.calls = <<>>
        /\ ev.fanouts = <<>>
        /\ ~ev.abort
        /\ SessionKept
        /\ OthersKept

C18_Witness ==
    /\ Handled(ERROR_MSG)
    /\ mState[ev.peer] = GOT_HELLO
    /\ ~dropped[ev.peer]
    /\ ~aborted

\* C19: a JSON_TRANSACTION message aborts the process exactly when it is
\* received in HandshakeComplete; received below HandshakeComplete it drops
\* that session only and the process goes on.
C19_UnrepresentableFatal ==
    Received(JSON_TRANSACTION) =>
        IF ev.pre.st = GOT_HELLO
        THEN aborted
        ELSE /\ ~aborted
             /\ ev.drop
             /\ dropped[ev.peer]
             /\ \A q \in PeerIds \ {ev.peer} : dropped[q] = ev.pre.dropped[q]

\* C20: no event moves a session's state backward in the order
\* Connecting < Connected < HandshakeComplete.
C20_StateMonotone ==
    ev.op \in {"recv", "task", "connect", "ask"} => mState[ev.peer] >= ev.pre.st

====
